---- MODULE Spec2Model ----
(***************************************************************************)
(* Model of the calculator service: the safe expression evaluator          *)
(* (expression_parser.py), and the /calculate handler with its cache       *)
(* (app.py, security.py, cache.py).                                        *)
(*                                                                         *)
(* A string is a sequence of one-character strings, so that it can be      *)
(* indexed: "2+3" is <<"2", "+", "3">>.  A token is such a string too.      *)
(*                                                                         *)
(* A float is a record [n, d]: the rational n/d in lowest terms with       *)
(* d > 0, or one of the three special values with d = 0 (inf, -inf, nan).  *)
(* The finite range is scaled down: magnitudes above FloatMax overflow to  *)
(* an infinity, non-zero magnitudes below 1/FloatTinyDen underflow to      *)
(* zero, as IEEE doubles do at 1.8e308 and 4.9e-324.  Rounding of the      *)
(* mantissa is not modelled.                                               *)
(***************************************************************************)
EXTENDS Integers, Sequences, FiniteSets, TLC

(***************************************************************************)
(* Bounds of the model.                                                    *)
(***************************************************************************)
MaxLen == 3          \* every string over ShortAlphabet up to this length is an input
MaxArithLen == 4     \* every string over ArithAlphabet up to this length is an input
MaxExprLen == 7      \* well-formed expressions up to this many characters are inputs
MaxRequestLen == 3   \* every string over ArithAlphabet up to this length is a request
NumCallers == 2      \* concurrent callers of safe_eval
FloatMax == 1000     \* largest finite magnitude of the scaled-down floats
FloatTinyDen == 1000 \* 1/FloatTinyDen is the smallest non-zero magnitude
MaxTime == 2         \* the clock stops after this many advances
max_requests == 2    \* the rate limiter's max_requests (60 at /calculate)
window_seconds == 2  \* the rate limiter's window_seconds (60 at /calculate)
MaxClock == 4        \* the rate limiter's clock runs from 0 to this
MaxRefused == 2      \* refused calls are counted up to this

(***************************************************************************)
(* Characters.                                                             *)
(***************************************************************************)
DigitChars == {"0", "1", "2", "3", "4", "5", "6", "7", "8", "9"}
OperatorChars == {"+", "-", "*", "/"}
ParenChars == {"(", ")"}
\* str.strip() removes every whitespace character, str.replace(' ', '') only
\* the space.  "\t" stands for the whitespace characters other than the space.
WhitespaceChars == {" ", "\t"}

DigitVal(ch) ==
    CASE ch = "0" -> 0 [] ch = "1" -> 1 [] ch = "2" -> 2 [] ch = "3" -> 3
      [] ch = "4" -> 4 [] ch = "5" -> 5 [] ch = "6" -> 6 [] ch = "7" -> 7
      [] ch = "8" -> 8 [] ch = "9" -> 9

Slice(s, i, j) == IF j < i THEN <<>> ELSE SubSeq(s, i, j)

\* str.strip(): the string without its leading and trailing whitespace
strip(s) ==
    LET keep == {i \in 1..Len(s) : s[i] \notin WhitespaceChars}
    IN  IF keep = {} THEN <<>>
        ELSE LET lo == CHOOSE i \in keep : \A j \in keep : i <= j
                 hi == CHOOSE i \in keep : \A j \in keep : j <= i
             IN  SubSeq(s, lo, hi)

IsSpaceChar(ch) == ch = " "
NotSpaceChar(ch) == ~IsSpaceChar(ch)

\* str.replace(' ', '')
RemoveSpaces(s) == SelectSeq(s, NotSpaceChar)

(***************************************************************************)
(* Outcomes of a call: a value, or an exception with its message.          *)
(***************************************************************************)
NoOutcome == [exc |-> "pending", msg |-> "", val |-> <<>>]
Value(v) == [exc |-> "", msg |-> "", val |-> <<v>>]
ValueError(m) == [exc |-> "ValueError", msg |-> m, val |-> <<>>]
ZeroDivisionError(m) == [exc |-> "ZeroDivisionError", msg |-> m, val |-> <<>>]
NoError == [exc |-> "", msg |-> "", val |-> <<>>]

\* The messages of InvalidToken and UnknownOperator go on with the token
\* (": " and its text), which is left out here.
EmptyExpression == ValueError("Empty expression")
TooLong == ValueError("Expression too long")
InvalidCharacter == ValueError("Invalid characters in expression")
UnbalancedParentheses == ValueError("Unbalanced parentheses")
ConsecutiveOperators == ValueError("Consecutive operators not allowed")
InvalidOperatorPlacement == ValueError("Invalid operator placement")
NoValidTokens == ValueError("No valid tokens found")
InvalidOperatorAtStart == ValueError("Invalid operator at start")
OperatorAtEnd == ValueError("Operator at end of expression")
InvalidToken == ValueError("Invalid token")
MalformedExpression == ValueError("Invalid expression")
UnknownOperator == ValueError("Unknown operator")
DivisionByZero == ZeroDivisionError("Division by zero")
ResultIsInfinity == ValueError("Result is infinity")
ResultIsNotANumber == ValueError("Result is not a number")

(***************************************************************************)
(* _validate_expression and _balanced_parentheses.                         *)
(***************************************************************************)
\* a limit that is off by one
LimitOffByOne == 1000 + 1

MaxExpressionLength == 1000

\* AllowedChars with a letter more, as a character class written too wide
AllowedCharsWide ==
    DigitChars \cup OperatorChars \cup ParenChars \cup {".", "e", "E", " ", "a"}

AllowedChars ==
    DigitChars \cup OperatorChars \cup ParenChars \cup {".", "e", "E", " "}

IsParenChar(ch) == ch \in ParenChars

\* the value of count after the first k parentheses of parens, or -1 once
\* the loop has returned False because count went below zero
RECURSIVE ParenCount(_, _)
ParenCount(parens, k) ==
    IF k = 0 THEN 0
    ELSE LET before == ParenCount(parens, k - 1)
         IN  IF before < 0 THEN -1
             ELSE IF parens[k] = "(" THEN before + 1
             ELSE before - 1

IsOpenParen(ch) == ch = "("
IsCloseParen(ch) == ch = ")"

\* balanced_parentheses without the return inside the loop: only the count at
\* the end is looked at
balanced_parentheses_at_end(expression) ==
    Len(SelectSeq(expression, IsOpenParen)) = Len(SelectSeq(expression, IsCloseParen))

\* the loop passes over every character that is no parenthesis
balanced_parentheses(expression) ==
    LET parens == SelectSeq(expression, IsParenChar)
    IN  ParenCount(parens, Len(parens)) = 0

\* HasConsecutiveOperators with {3,} for {2,}
HasThreeOperators(expression) ==
    \E i \in 1..(Len(expression) - 2) :
        /\ expression[i] \in OperatorChars
        /\ expression[i + 1] \in OperatorChars
        /\ expression[i + 2] \in OperatorChars

\* re.search(r'[+\-*/]{2,}', expression)
HasConsecutiveOperators(expression) ==
    \E i \in 1..(Len(expression) - 1) :
        expression[i] \in OperatorChars /\ expression[i + 1] \in OperatorChars

\* validate_expression with the operator checks before the parenthesis check
validate_expression_reordered(expression) ==
    IF Len(expression) > MaxExpressionLength THEN TooLong
    ELSE IF \E i \in 1..Len(expression) : expression[i] \notin AllowedChars
        THEN InvalidCharacter
    ELSE IF HasConsecutiveOperators(expression) THEN ConsecutiveOperators
    ELSE IF expression[1] \in {"+", "*", "/"}
            \/ expression[Len(expression)] \in OperatorChars
        THEN InvalidOperatorPlacement
    ELSE IF ~balanced_parentheses(expression) THEN UnbalancedParentheses
    ELSE NoError

\* the checks of _validate_expression; NoError when it returns normally
validate_expression(expression) ==
    IF Len(expression) > MaxExpressionLength THEN TooLong
    ELSE IF \E i \in 1..Len(expression) : expression[i] \notin AllowedChars
        THEN InvalidCharacter
    ELSE IF ~balanced_parentheses(expression) THEN UnbalancedParentheses
    ELSE IF HasConsecutiveOperators(expression) THEN ConsecutiveOperators
    ELSE IF expression[1] \in {"+", "*", "/"}
            \/ expression[Len(expression)] \in OperatorChars
        THEN InvalidOperatorPlacement
    ELSE NoError

(***************************************************************************)
(* Floats.                                                                 *)
(***************************************************************************)
Inf == [n |-> 1, d |-> 0]
NegInf == [n |-> -1, d |-> 0]
NaN == [n |-> 0, d |-> 0]
Zero == [n |-> 0, d |-> 1]

isinf(x) == x.d = 0 /\ x.n # 0
isnan(x) == x.d = 0 /\ x.n = 0
IsFinite(x) == x.d > 0
IsZero(x) == x.d > 0 /\ x.n = 0

Abs(i) == IF i < 0 THEN -i ELSE i
Sign(i) == IF i < 0 THEN -1 ELSE IF i > 0 THEN 1 ELSE 0

RECURSIVE GCD(_, _)
GCD(a, b) == IF b = 0 THEN a ELSE GCD(b, a % b)

\* the float nearest to n/d (d > 0): overflow to an infinity above FloatMax,
\* underflow to zero below 1/FloatTinyDen, else the rational in lowest terms
FloatOf(n, d) ==
    LET a == Abs(n)
    IN  IF n = 0 THEN Zero
        ELSE IF a \div d > FloatMax \/ (a \div d = FloatMax /\ a % d > 0)
            THEN (IF n > 0 THEN Inf ELSE NegInf)
        ELSE IF d \div a > FloatTinyDen \/ (d \div a = FloatTinyDen /\ d % a > 0)
            THEN Zero
        ELSE LET g == GCD(a, d) IN [n |-> n \div g, d |-> d \div g]

Neg(x) == [n |-> -x.n, d |-> x.d]

FloatAdd(a, b) ==
    IF isnan(a) \/ isnan(b) THEN NaN
    ELSE IF isinf(a) THEN (IF isinf(b) /\ b.n # a.n THEN NaN ELSE a)
    ELSE IF isinf(b) THEN b
    ELSE FloatOf(a.n * b.d + b.n * a.d, a.d * b.d)

FloatSub(a, b) == FloatAdd(a, Neg(b))

FloatMul(a, b) ==
    IF isnan(a) \/ isnan(b) THEN NaN
    ELSE IF isinf(a) \/ isinf(b)
        THEN (IF IsZero(a) \/ IsZero(b) THEN NaN
              ELSE IF Sign(a.n) * Sign(b.n) > 0 THEN Inf ELSE NegInf)
    ELSE FloatOf(a.n * b.n, a.d * b.d)

\* a / b for b # 0 (the caller has excluded a zero divisor)
FloatDiv(a, b) ==
    IF isnan(a) \/ isnan(b) THEN NaN
    ELSE IF isinf(a)
        THEN (IF isinf(b) THEN NaN
              ELSE IF Sign(a.n) * Sign(b.n) > 0 THEN Inf ELSE NegInf)
    ELSE IF isinf(b) THEN Zero
    ELSE FloatOf(a.n * b.d * Sign(b.n), a.d * Abs(b.n))

RECURSIVE Pow10(_)
Pow10(k) == IF k = 0 THEN 1 ELSE 10 * Pow10(k - 1)

\* the index after the longest run of digits of s that starts at i
RECURSIVE DigitsEnd(_, _)
DigitsEnd(s, i) ==
    IF i <= Len(s) /\ s[i] \in DigitChars THEN DigitsEnd(s, i + 1) ELSE i

\* the number written by the digits s[i..j-1], 0 for none
RECURSIVE DigitsValue(_, _, _)
DigitsValue(s, i, j) ==
    IF j <= i THEN 0 ELSE 10 * DigitsValue(s, i, j - 1) + DigitVal(s[j - 1])

\* The parts of an unsigned decimal literal read from position i of s:
\* integer digits, a point, fraction digits, an exponent mark with an
\* optional sign, exponent digits.  Each definition is the index after the
\* part it names; a missing part ends where it starts.
AfterPoint(s, i) == IF i <= Len(s) /\ s[i] = "." THEN i + 1 ELSE i
AfterExpMark(s, i) ==
    IF i <= Len(s) /\ s[i] \in {"e", "E"}
    THEN (IF i + 1 <= Len(s) /\ s[i + 1] \in {"+", "-"} THEN i + 2 ELSE i + 1)
    ELSE i

IntEnd(s, i) == DigitsEnd(s, i)
FracStart(s, i) == AfterPoint(s, IntEnd(s, i))
FracEnd(s, i) == DigitsEnd(s, FracStart(s, i))
ExpStart(s, i) == AfterExpMark(s, FracEnd(s, i))
ExpEnd(s, i) == DigitsEnd(s, ExpStart(s, i))

\* _is_number: whether float(token) succeeds.  A token has no sign, space or
\* letter other than e and E, so float() accepts it exactly when it is one
\* literal with a digit in its integer or fraction part and, after an
\* exponent mark, an exponent digit.
is_number(token) ==
    /\ IntEnd(token, 1) > 1 \/ FracEnd(token, 1) > FracStart(token, 1)
    /\ ExpStart(token, 1) > FracEnd(token, 1) => ExpEnd(token, 1) > ExpStart(token, 1)
    /\ ExpEnd(token, 1) = Len(token) + 1

\* the digits of the literal without its point, and the power of ten that
\* multiplies them
Mantissa(s) ==
    DigitsValue(s, 1, IntEnd(s, 1)) * Pow10(FracEnd(s, 1) - FracStart(s, 1))
    + DigitsValue(s, FracStart(s, 1), FracEnd(s, 1))
ExpSign(s, fracEnd) == IF fracEnd + 1 <= Len(s) /\ s[fracEnd + 1] = "-" THEN -1 ELSE 1
Exponent(s) ==
    ExpSign(s, FracEnd(s, 1)) * DigitsValue(s, ExpStart(s, 1), ExpEnd(s, 1))
    - (FracEnd(s, 1) - FracStart(s, 1))

\* the float nearest to mant * 10^x; a power of ten beyond 10^9 is beyond the
\* float range on either side
Scaled(mant, x) ==
    IF mant = 0 THEN Zero
    ELSE IF x > 9 THEN Inf
    ELSE IF x < -9 THEN Zero
    ELSE IF x >= 0
        THEN (IF mant > FloatMax \div Pow10(x) THEN Inf
              ELSE FloatOf(mant * Pow10(x), 1))
    ELSE FloatOf(mant, Pow10(-x))

\* float(token) for a token that is a number
ToFloat(token) == Scaled(Mantissa(token), Exponent(token))

(***************************************************************************)
(* _tokenize and _validate_token_sequence.                                 *)
(***************************************************************************)
\* number_pattern \d+\.?\d*(?:[eE][+-]?\d+)? matched at position i of s: the
\* index after the match, 0 when there is none
NumberMatchEnd(s, i) ==
    IF i > Len(s) \/ s[i] \notin DigitChars THEN 0
    ELSE IF ExpStart(s, i) > FracEnd(s, i) /\ ExpEnd(s, i) > ExpStart(s, i)
        THEN ExpEnd(s, i)
    ELSE FracEnd(s, i)

\* token_regex.findall(s) from position i on: the matches in order, the
\* characters no alternative matches are passed over
RECURSIVE FindAll(_, _)
FindAll(s, i) ==
    IF i > Len(s) THEN <<>>
    ELSE LET m == NumberMatchEnd(s, i)
         IN  IF m > 0 THEN <<Slice(s, i, m - 1)>> \o FindAll(s, m)
             ELSE IF s[i] \in OperatorChars \cup ParenChars
                 THEN <<<<s[i]>>>> \o FindAll(s, i + 1)
             ELSE FindAll(s, i + 1)

IsOperatorToken(token) == Len(token) = 1 /\ token[1] \in OperatorChars
IsParenToken(token) == Len(token) = 1 /\ token[1] \in ParenChars

\* what _validate_token_sequence raises at index i (1-based), NoError if nothing
TokenFault(tokens, i) ==
    IF IsOperatorToken(tokens[i])
    THEN (IF i = 1 /\ tokens[i] # <<"-">> THEN InvalidOperatorAtStart
          ELSE IF i = Len(tokens) THEN OperatorAtEnd
          ELSE NoError)
    ELSE IF IsParenToken(tokens[i]) THEN NoError
    ELSE IF ~is_number(tokens[i]) THEN InvalidToken
    ELSE NoError

validate_token_sequence(tokens) ==
    LET bad == {i \in 1..Len(tokens) : TokenFault(tokens, i) # NoError}
    IN  IF bad = {} THEN NoError
        ELSE TokenFault(tokens, CHOOSE i \in bad : \A j \in bad : i <= j)

\* _tokenize: the tokens, and what it raises (NoError if nothing)
tokenize(expression) ==
    LET found == FindAll(RemoveSpaces(expression), 1)
    IN  IF found = <<>> THEN [tokens |-> <<>>, err |-> NoValidTokens]
        ELSE [tokens |-> found, err |-> validate_token_sequence(found)]

(***************************************************************************)
(* _infix_to_postfix.  The state of the conversion is the pair of its      *)
(* output list and its operator stack (top at the end).                    *)
(***************************************************************************)
precedence(op) == IF op \in {"*", "/"} THEN 2 ELSE 1

NewConversion == [output |-> <<>>, operators |-> <<>>]

Top(stack) == stack[Len(stack)]
Pop(stack) == SubSeq(stack, 1, Len(stack) - 1)

\* while operators and operators[-1] != '(': output.append(operators.pop())
RECURSIVE PopToParen(_)
PopToParen(st) ==
    IF st.operators # <<>> /\ Top(st.operators) # <<"(">>
    THEN PopToParen([output |-> Append(st.output, Top(st.operators)),
                     operators |-> Pop(st.operators)])
    ELSE st

\* PopsBefore with > for >=: an operator of equal precedence stays on the
\* stack, which groups equal precedence right to left
PopsBeforeStrict(top, token) == precedence(top[1]) > precedence(token[1])

\* whether the operator on top of the stack is popped before token is pushed
PopsBefore(top, token) == precedence(top[1]) >= precedence(token[1])

\* while operators and operators[-1] != '(' and
\*       precedence[operators[-1]] >= precedence[token]: output.append(operators.pop())
RECURSIVE PopHigher(_, _)
PopHigher(st, token) ==
    IF st.operators # <<>> /\ Top(st.operators) # <<"(">>
       /\ PopsBefore(Top(st.operators), token)
    THEN PopHigher([output |-> Append(st.output, Top(st.operators)),
                    operators |-> Pop(st.operators)], token)
    ELSE st

\* one pass of the for loop
ConvertToken(st, token) ==
    IF is_number(token)
        THEN [st EXCEPT !.output = Append(st.output, token)]
    ELSE IF token = <<"(">>
        THEN [st EXCEPT !.operators = Append(st.operators, token)]
    ELSE IF token = <<")">>
        THEN LET popped == PopToParen(st)
             IN  IF popped.operators # <<>>
                 THEN [popped EXCEPT !.operators = Pop(popped.operators)]
                 ELSE popped
    ELSE IF IsOperatorToken(token)
        THEN LET popped == PopHigher(st, token)
             IN  [popped EXCEPT !.operators = Append(popped.operators, token)]
    ELSE st

\* the end of the conversion without the last loop: the operators left on
\* the stack do not reach the output
ConvertFlushNone(st) == [st EXCEPT !.operators = <<>>]

\* while operators: output.append(operators.pop())
RECURSIVE ConvertFlush(_)
ConvertFlush(st) ==
    IF st.operators # <<>>
    THEN ConvertFlush([output |-> Append(st.output, Top(st.operators)),
                       operators |-> Pop(st.operators)])
    ELSE st

RECURSIVE ConvertFrom(_, _, _)
ConvertFrom(st, tokens, i) ==
    IF i > Len(tokens) THEN st
    ELSE ConvertFrom(ConvertToken(st, tokens[i]), tokens, i + 1)

infix_to_postfix(tokens) ==
    ConvertFlush(ConvertFrom(NewConversion, tokens, 1)).output

(***************************************************************************)
(* _evaluate_postfix.                                                      *)
(***************************************************************************)
\* Apply with the zero test on the left operand of the division
ApplyZeroLeft(op, a, b) ==
    IF op = "+" THEN Value(FloatAdd(a, b))
    ELSE IF op = "-" THEN Value(FloatSub(a, b))
    ELSE IF op = "*" THEN Value(FloatMul(a, b))
    ELSE IF op = "/"
        THEN (IF IsZero(a) THEN DivisionByZero ELSE Value(FloatDiv(a, b)))
    ELSE UnknownOperator

\* a OP b, or the exception it raises
Apply(op, a, b) ==
    IF op = "+" THEN Value(FloatAdd(a, b))
    ELSE IF op = "-" THEN Value(FloatSub(a, b))
    ELSE IF op = "*" THEN Value(FloatMul(a, b))
    ELSE IF op = "/"
        THEN (IF IsZero(b) THEN DivisionByZero ELSE Value(FloatDiv(a, b)))
    ELSE UnknownOperator

\* EvalToken without the test of len(stack) < 2: stack.pop() on an empty list
\* raises IndexError
EvalTokenUnguarded(stack, token) ==
    IF is_number(token)
        THEN [stack |-> Append(stack, ToFloat(token)), err |-> NoError]
    ELSE IF Len(stack) < 2
        THEN [stack |-> <<>>,
              err |-> [exc |-> "IndexError", msg |-> "pop from empty list", val |-> <<>>]]
    ELSE LET b == stack[Len(stack)]
             a == stack[Len(stack) - 1]
             rest == SubSeq(stack, 1, Len(stack) - 2)
             r == Apply(token[1], a, b)
         IN  IF r.val = <<>> THEN [stack |-> rest, err |-> r]
             ELSE [stack |-> Append(rest, r.val[1]), err |-> NoError]

\* one pass of the for loop: the stack after it, and what it raises
EvalToken(stack, token) ==
    IF is_number(token)
        THEN [stack |-> Append(stack, ToFloat(token)), err |-> NoError]
    ELSE IF Len(stack) < 2
        THEN [stack |-> stack, err |-> MalformedExpression]
    ELSE LET b == stack[Len(stack)]
             a == stack[Len(stack) - 1]
             rest == SubSeq(stack, 1, Len(stack) - 2)
             r == Apply(token[1], a, b)
         IN  IF r.val = <<>> THEN [stack |-> rest, err |-> r]
             ELSE [stack |-> Append(rest, r.val[1]), err |-> NoError]

\* the checks after the loop
EvalFinish(stack) ==
    IF Len(stack) # 1 THEN MalformedExpression
    ELSE IF isinf(stack[1]) THEN ResultIsInfinity
    ELSE IF isnan(stack[1]) THEN ResultIsNotANumber
    ELSE Value(stack[1])

\* the loop from its pass i on, r being the stack and the exception of the
\* passes before it, then the checks after the loop
RECURSIVE EvalFrom(_, _, _)
EvalFrom(r, postfix, i) ==
    IF r.err # NoError THEN r.err
    ELSE IF i > Len(postfix) THEN EvalFinish(r.stack)
    ELSE EvalFrom(EvalToken(r.stack, postfix[i]), postfix, i + 1)

evaluate_postfix(postfix) == EvalFrom([stack |-> <<>>, err |-> NoError], postfix, 1)

(***************************************************************************)
(* parse and safe_eval: the outcome of one call run on its own.            *)
(***************************************************************************)
parse(expression) ==
    LET e == strip(expression)
    IN  IF e = <<>> THEN EmptyExpression
        ELSE IF validate_expression(e) # NoError THEN validate_expression(e)
        ELSE LET t == tokenize(e)
             IN  IF t.err # NoError THEN t.err
                 ELSE evaluate_postfix(infix_to_postfix(t.tokens))

safe_eval(expression) == parse(expression)

(***************************************************************************)
(* The service around the evaluator: InputValidator, the cache, and the    *)
(* /calculate handler.                                                     *)
(***************************************************************************)
MaxInputLength == 1000
CalcTtl == 3600
DefaultTtl == 300

UpperLetters == <<"A", "B", "C", "D", "E", "F", "G", "H", "I", "J", "K", "L", "M",
                  "N", "O", "P", "Q", "R", "S", "T", "U", "V", "W", "X", "Y", "Z">>
LowerLetters == <<"a", "b", "c", "d", "e", "f", "g", "h", "i", "j", "k", "l", "m",
                  "n", "o", "p", "q", "r", "s", "t", "u", "v", "w", "x", "y", "z">>

\* str.lower()
lower(s) ==
    [i \in 1..Len(s) |->
        IF \E k \in 1..26 : UpperLetters[k] = s[i]
        THEN LowerLetters[CHOOSE k \in 1..26 : UpperLetters[k] = s[i]]
        ELSE s[i]]

\* pattern in s
Contains(s, pattern) ==
    \E i \in 1..(Len(s) - Len(pattern) + 1) :
        SubSeq(s, i, i + Len(pattern) - 1) = pattern

\* the patterns in the order of the list, each with the message for it
suspicious_patterns ==
    <<[pattern |-> <<"_", "_", "i", "m", "p", "o", "r", "t", "_", "_">>,
       message |-> "Suspicious pattern detected: __import__"],
      [pattern |-> <<"e", "x", "e", "c", "(">>,
       message |-> "Suspicious pattern detected: exec("],
      [pattern |-> <<"e", "v", "a", "l", "(">>,
       message |-> "Suspicious pattern detected: eval("],
      [pattern |-> <<"o", "p", "e", "n", "(">>,
       message |-> "Suspicious pattern detected: open("],
      [pattern |-> <<"f", "i", "l", "e", "(">>,
       message |-> "Suspicious pattern detected: file("],
      [pattern |-> <<"i", "n", "p", "u", "t", "(">>,
       message |-> "Suspicious pattern detected: input("],
      [pattern |-> <<"r", "a", "w", "_", "i", "n", "p", "u", "t", "(">>,
       message |-> "Suspicious pattern detected: raw_input("]>>

\* InputValidator.validate_expression: its error message, "" when valid
InputValidator_validate_expression(expression) ==
    LET found == {k \in 1..Len(suspicious_patterns) :
                     Contains(lower(expression), suspicious_patterns[k].pattern)}
    IN  IF expression = <<>> THEN "Expression cannot be empty"
        ELSE IF Len(expression) > MaxInputLength
            THEN "Expression too long (max 1000 characters)"
        ELSE IF found # {}
            THEN suspicious_patterns[CHOOSE k \in found : \A j \in found : k <= j].message
        ELSE ""

TimesSign == "×"
DivisionSign == "÷"

\* expression.replace('×', '*').replace('÷', '/')
ReplaceSymbols(s) ==
    [i \in 1..Len(s) |->
        IF s[i] = TimesSign THEN "*" ELSE IF s[i] = DivisionSign THEN "/" ELSE s[i]]

\* The memory cache is a function from keys to entries [value, expiry].
\* (The deployment without the redis module: CacheManager has no Redis cache.)
EmptyCache == [k \in {} |-> [value |-> Zero, expiry |-> 0]]

\* a key made from the name of the function alone
cache_key_of_name(name, expression) == <<name>>

\* f"{func.__name__}:{cache_key(*args)}": the md5 digest of the arguments is
\* taken to be free of collisions, so the key stands for the pair
cache_key(name, expression) == <<name, expression>>

\* MemoryCache.get: the value in a one-element sequence, <<>> for None, and
\* the cache after the call (an expired entry is deleted)
MemoryCache_get(cch, key, t) ==
    IF key \in DOMAIN cch
    THEN (IF t < cch[key].expiry
          THEN [value |-> <<cch[key].value>>, cache |-> cch]
          ELSE [value |-> <<>>,
                cache |-> [k \in DOMAIN cch \ {key} |-> cch[k]]])
    ELSE [value |-> <<>>, cache |-> cch]

\* the ttl argument of set: <<>> when it is omitted (None), else <<seconds>>
NoTtl == <<>>

\* ttl or self.default_ttl: None and 0 are both false
TtlOrDefault(ttl) == IF ttl = NoTtl \/ ttl[1] = 0 THEN DefaultTtl ELSE ttl[1]

\* MemoryCache.set
MemoryCache_set(cch, key, value, ttl, t) ==
    LET life == TtlOrDefault(ttl)
    IN  [k \in DOMAIN cch \cup {key} |->
            IF k = key THEN [value |-> value, expiry |-> t + life] ELSE cch[k]]

\* wrapper of cached(), after cache_manager.get(key) has returned got: the
\* cached value if there is one, else what func returns or raises (r), which
\* is stored when it is a value; the outcome and the cache after the call
wrapper(got, key, r, ttl, t) ==
    IF got.value # <<>> THEN [outcome |-> Value(got.value[1]), cache |-> got.cache]
    ELSE IF r.val = <<>> THEN [outcome |-> r, cache |-> got.cache]
    ELSE [outcome |-> r, cache |-> MemoryCache_set(got.cache, key, r.val[1], ttl, t)]

\* cached_calculate: safe_eval under cached(cache_manager, ttl=3600)
cached_calculate(cch, expression, t) ==
    wrapper(MemoryCache_get(cch, cache_key("cached_calculate", expression), t),
            cache_key("cached_calculate", expression),
            safe_eval(expression), <<CalcTtl>>, t)

\* An HTTP response: the status, and the 'error' or the 'result' field of its
\* JSON body (result holds the value whose text is sent).
NoResponse == [status |-> 0, error |-> "", result |-> <<>>]
ErrorResponse(status, message) == [status |-> status, error |-> message, result |-> <<>>]
ResultResponse(v) == [status |-> 200, error |-> "", result |-> <<v>>]

\* calculate_result without the except clauses: an exception of the evaluator
\* leaves the handler, and the framework answers 500
calculate_result_unhandled(c) ==
    IF c.outcome.exc # ""
        THEN [response |-> ErrorResponse(500, "Internal Server Error"), cache |-> c.cache]
    ELSE IF isinf(c.outcome.val[1])
        THEN [response |-> ErrorResponse(400, "Infinity"), cache |-> c.cache]
    ELSE IF isnan(c.outcome.val[1])
        THEN [response |-> ErrorResponse(400, "Not a number"), cache |-> c.cache]
    ELSE [response |-> ResultResponse(c.outcome.val[1]), cache |-> c.cache]

\* calculate() after cached_calculate has returned or raised c.outcome: the
\* except clauses, and the special cases of a float result
calculate_result(c) ==
    IF c.outcome.exc = "ZeroDivisionError"
        THEN [response |-> ErrorResponse(400, "Division by zero"), cache |-> c.cache]
    ELSE IF c.outcome.exc # ""
        THEN [response |-> ErrorResponse(400, "Invalid expression"), cache |-> c.cache]
    ELSE IF isinf(c.outcome.val[1])
        THEN [response |-> ErrorResponse(400, "Infinity"), cache |-> c.cache]
    ELSE IF isnan(c.outcome.val[1])
        THEN [response |-> ErrorResponse(400, "Not a number"), cache |-> c.cache]
    ELSE [response |-> ResultResponse(c.outcome.val[1]), cache |-> c.cache]

\* the body of calculate() for the request's 'expression' field: the response,
\* and the cache after it
calculate(cch, raw, t) ==
    LET error_msg == InputValidator_validate_expression(raw)
    IN  IF error_msg # "" THEN [response |-> ErrorResponse(400, error_msg), cache |-> cch]
        ELSE calculate_result(cached_calculate(cch, ReplaceSymbols(raw), t))

(***************************************************************************)
(* RateLimiter.is_allowed on the deque of one client.                      *)
(***************************************************************************)
\* the loop condition with < for <=: a request recorded exactly
\* window_seconds ago is kept
OutsideWindowStrict(recorded, t) == recorded < t - window_seconds

\* client_requests[0] <= now - self.window_seconds
OutsideWindow(recorded, t) == recorded <= t - window_seconds

\* while client_requests and client_requests[0] <= now - window_seconds:
\*     client_requests.popleft()
RECURSIVE Evicted(_, _)
Evicted(reqs, t) ==
    IF reqs # <<>> /\ OutsideWindow(reqs[1], t) THEN Evicted(Tail(reqs), t) ELSE reqs

\* the test of the limit with > for >=
AtLimitOver(reqs) == Len(reqs) > max_requests

\* len(client_requests) >= self.max_requests
AtLimit(reqs) == Len(reqs) >= max_requests

\* is_allowed run without interruption at time t: what it returns, and the
\* deque after it, kept being the deque after the while loop
is_allowed_after(kept, t) ==
    IF AtLimit(kept) THEN [allowed |-> FALSE, requests |-> kept]
    ELSE [allowed |-> TRUE, requests |-> Append(kept, t)]

is_allowed(reqs, t) == is_allowed_after(Evicted(reqs, t), t)

\* the clients of the service
Clients == {"a", "b"}

(***************************************************************************)
(* Inputs.                                                                 *)
(***************************************************************************)
\* every string over ShortAlphabet of at most MaxLen characters
ShortAlphabet ==
    {"0", "2", ".", "e", "+", "-", "*", "/", "(", ")", " ", "a", "\t"}
ShortStrings == UNION {[1..n -> ShortAlphabet] : n \in 0..MaxLen}

\* every string of digits, operators and parentheses of at most MaxArithLen
\* characters
ArithAlphabet == {"0", "2", "+", "-", "*", "/", "(", ")"}
ArithStrings == UNION {[1..n -> ArithAlphabet] : n \in 0..MaxArithLen}

\* the well-formed infix expressions of exactly n characters: a number, a
\* parenthesised expression, or two expressions joined by a binary operator
NumberLiterals ==
    {<<"0">>, <<"2">>, <<"3">>, <<"0", ".", "5">>, <<"2", "e", "2">>, <<"2", "e", "3">>}
WellFormed[n \in 0..(MaxExprLen + 1)] ==
    IF n = 0 THEN {}
    ELSE {l \in NumberLiterals : Len(l) = n}
         \cup (IF n >= 3 THEN {<<"(">> \o x \o <<")">> : x \in WellFormed[n - 2]}
               ELSE {})
         \cup UNION {{a \o <<op>> \o b :
                        a \in WellFormed[i], op \in OperatorChars,
                        b \in WellFormed[n - 1 - i]} : i \in 1..(n - 2)}
WellFormedExpressions == UNION {WellFormed[n] : n \in 1..MaxExprLen}
\* a well-formed expression after a leading minus
LeadingMinusExpressions ==
    {<<"-">> \o x : x \in UNION {WellFormed[n] : n \in 1..(MaxExprLen - 1)}}

\* strings around the length limits: a prefix, a run of spaces, a suffix
Pad(prefix, k, suffix) == prefix \o [i \in 1..k |-> " "] \o suffix
LongEnds ==
    {<<>>, <<"2">>, <<"a">>, <<"(">>, <<"2", "+", "+", "3">>, <<"2", "+", "3">>,
     <<"2", "/", "0">>}
LongInputs ==
    {Pad(p, k - Len(p) - Len(q), q) :
        p \in LongEnds \ {<<>>}, q \in {<<>>, <<"2">>},
        k \in {MaxExpressionLength, MaxExpressionLength + 1}}

SymbolInputs ==
    {<<"2", TimesSign, "3">>, <<"3", DivisionSign, "0">>, <<"3", DivisionSign, "2">>,
     <<"2", TimesSign, DivisionSign, "3">>, <<"e", "v", "a", "l", "(", "2", ")">>,
     <<"E", "V", "A", "L", "(", "2", ")">>}

\* strings with the digits and the lengths that the other sets leave out
Examples ==
    {<<"2", "+", "3", "*", "4">>, <<"(", "2", "+", "3", ")", "*", "4">>,
     <<"1", "0", "/", "0">>, <<"2", "+", "+", "3">>, <<"2", "*", "-", "3">>,
     <<"(", "(", "1", "+", "2", ")">>, <<"-", "5", "+", "3">>, <<"-", "5">>,
     <<"1", ".", "2", ".", "3">>, <<"2", "+", "3", "\t">>, <<"2", " ", "3">>,
     <<"2", "(", "+", "3", ")">>, <<"2", "(", "3", ")", "+", "(", ")">>,
     <<"2", "+", "(", ")", "3">>}

Inputs ==
    ShortStrings \cup ArithStrings \cup WellFormedExpressions
    \cup LeadingMinusExpressions \cup LongInputs \cup SymbolInputs \cup Examples

\* the 'expression' fields of the requests sent to /calculate
RequestStrings == UNION {[1..n -> ArithAlphabet] : n \in 0..MaxRequestLen}
Requests == RequestStrings \cup LongInputs \cup SymbolInputs \cup Examples

\* the arguments of the calls where several calls are made
CallInputs ==
    {<<"2", "-", "3">>, <<"3", "/", "0">>, <<"(", "2">>,
     <<"2", "*", "(", "3", "+", "2", ")">>}

NoRequest == <<"no request">>

(***************************************************************************)
(* State.  Each caller of safe_eval has a position pc and the argument     *)
(* input of its call; the locals of its call live in its frame.  The       *)
(* handler's state is the request being served, the last response, the     *)
(* memory cache and the clock.                                             *)
(***************************************************************************)
VARIABLES pc, input, outcome, pos,
          expression, tokens, output, operators, stack,
          first, request, response, cache, now, ticks,
          requests, granted, refused, lpc, client, stamp, verdict,
          got, stored

vars == <<pc, input, outcome, pos, expression, tokens, output, operators, stack,
          first, request, response, cache, now, ticks,
          requests, granted, refused, lpc, client, stamp, verdict,
          got, stored>>
locals == <<expression, tokens, output, operators, stack>>
service == <<request, response, cache, now, ticks>>
\* The rate limiter: requests is RateLimiter.requests, the deque of every
\* client; lpc, client, stamp and verdict are the position, the client_id,
\* the local now and the return value of each thread's call of is_allowed;
\* granted keeps, for every client and every time, the number of its calls
\* with that timestamp that returned True, and refused counts, up to
\* MaxRefused, its calls that returned False.
limiter == <<requests, granted, refused, lpc, client, stamp, verdict>>
\* Direct use of the MemoryCache: got is what the last get returned, for which
\* key and when; stored keeps, for every key, the arguments and the time of
\* the last set.
memo == <<got, stored>>

\* no get has been made since the last set
NoGet == [key |-> "", value |-> <<>>, at |-> 0]

Callers == 1..NumCallers

\* one frame for all callers, as if the locals were attributes of the shared
\* parser instance
SharedFrame(c) == 1

\* the frame that holds the locals of caller c's call: its own
Frame(c) == c

\* the output list as the call before left it, as if it were not created anew
StaleOutput(c) == output[Frame(c)]

\* output = [] and operators = [] at the start of _infix_to_postfix,
\* stack = [] at the start of _evaluate_postfix
FreshOutput(c) == <<>>
FreshOperators(c) == <<>>
FreshStack(c) == <<>>

\* no call has been made, no request served
Fresh ==
    /\ outcome = [c \in Callers |-> NoOutcome]
    /\ pos = [c \in Callers |-> 1]
    /\ expression = [c \in Callers |-> <<>>]
    /\ tokens = [c \in Callers |-> <<>>]
    /\ output = [c \in Callers |-> <<>>]
    /\ operators = [c \in Callers |-> <<>>]
    /\ stack = [c \in Callers |-> <<>>]
    /\ first = [e \in {} |-> NoOutcome]
    /\ response = NoResponse
    /\ cache = EmptyCache
    /\ now = 0
    /\ ticks = 0
    /\ requests = [k \in Clients |-> <<>>]
    /\ granted = [k \in Clients |-> [t \in 0..MaxClock |-> 0]]
    /\ refused = [k \in Clients |-> 0]
    /\ lpc = [c \in Callers |-> "idle"]
    /\ client = [c \in Callers |-> "a"]
    /\ stamp = [c \in Callers |-> 0]
    /\ verdict = [c \in Callers |-> "none"]
    /\ got = NoGet
    /\ stored = [key \in {} |-> [value |-> 0, ttl |-> <<>>, at |-> 0]]

\* safe_eval(e) is called
Call(c, e) ==
    /\ pc[c] = "idle"
    /\ pc' = [pc EXCEPT ![c] = "parse"]
    /\ input' = [input EXCEPT ![c] = e]
    /\ outcome' = [outcome EXCEPT ![c] = NoOutcome]
    /\ UNCHANGED <<pos, locals, first, service, limiter, memo>>

\* parse, up to the call of _validate_expression
ParseStart(c) ==
    /\ pc[c] = "parse"
    /\ IF strip(input[c]) = <<>>
       THEN /\ outcome' = [outcome EXCEPT ![c] = EmptyExpression]
            /\ pc' = [pc EXCEPT ![c] = "done"]
            /\ UNCHANGED expression
       ELSE /\ expression' = [expression EXCEPT ![Frame(c)] = strip(input[c])]
            /\ pc' = [pc EXCEPT ![c] = "validate"]
            /\ UNCHANGED outcome
    /\ UNCHANGED <<input, pos, tokens, output, operators, stack, first, service, limiter, memo>>

Validate(c) ==
    /\ pc[c] = "validate"
    /\ LET r == validate_expression(expression[Frame(c)])
       IN  IF r # NoError
           THEN /\ outcome' = [outcome EXCEPT ![c] = r]
                /\ pc' = [pc EXCEPT ![c] = "done"]
           ELSE /\ pc' = [pc EXCEPT ![c] = "tokenize"]
                /\ UNCHANGED outcome
    /\ UNCHANGED <<input, pos, locals, first, service, limiter, memo>>

\* _tokenize, and the entry of _infix_to_postfix
Tokenize(c) ==
    /\ pc[c] = "tokenize"
    /\ LET t == tokenize(expression[Frame(c)])
       IN  IF t.err # NoError
           THEN /\ outcome' = [outcome EXCEPT ![c] = t.err]
                /\ pc' = [pc EXCEPT ![c] = "done"]
                /\ UNCHANGED <<pos, tokens, output, operators>>
           ELSE /\ tokens' = [tokens EXCEPT ![Frame(c)] = t.tokens]
                /\ output' = [output EXCEPT ![Frame(c)] = FreshOutput(c)]
                /\ operators' = [operators EXCEPT ![Frame(c)] = FreshOperators(c)]
                /\ pos' = [pos EXCEPT ![c] = 1]
                /\ pc' = [pc EXCEPT ![c] = "convert"]
                /\ UNCHANGED outcome
    /\ UNCHANGED <<input, expression, stack, first, service, limiter, memo>>

\* one pass of the for loop of _infix_to_postfix
ConvertStep(c) ==
    /\ pc[c] = "convert"
    /\ pos[c] <= Len(tokens[Frame(c)])
    /\ LET st == ConvertToken([output |-> output[Frame(c)],
                               operators |-> operators[Frame(c)]],
                              tokens[Frame(c)][pos[c]])
       IN  /\ output' = [output EXCEPT ![Frame(c)] = st.output]
           /\ operators' = [operators EXCEPT ![Frame(c)] = st.operators]
    /\ pos' = [pos EXCEPT ![c] = pos[c] + 1]
    /\ UNCHANGED <<pc, input, outcome, expression, tokens, stack, first, service, limiter, memo>>

\* the end of _infix_to_postfix, and the entry of _evaluate_postfix
ConvertEnd(c) ==
    /\ pc[c] = "convert"
    /\ pos[c] > Len(tokens[Frame(c)])
    /\ LET st == ConvertFlush([output |-> output[Frame(c)],
                               operators |-> operators[Frame(c)]])
       IN  /\ output' = [output EXCEPT ![Frame(c)] = st.output]
           /\ operators' = [operators EXCEPT ![Frame(c)] = st.operators]
    /\ stack' = [stack EXCEPT ![Frame(c)] = FreshStack(c)]
    /\ pos' = [pos EXCEPT ![c] = 1]
    /\ pc' = [pc EXCEPT ![c] = "evaluate"]
    /\ UNCHANGED <<input, outcome, expression, tokens, first, service, limiter, memo>>

\* one pass of the for loop of _evaluate_postfix
EvalStep(c) ==
    /\ pc[c] = "evaluate"
    /\ pos[c] <= Len(output[Frame(c)])
    /\ LET r == EvalToken(stack[Frame(c)], output[Frame(c)][pos[c]])
       IN  /\ stack' = [stack EXCEPT ![Frame(c)] = r.stack]
           /\ IF r.err # NoError
              THEN /\ outcome' = [outcome EXCEPT ![c] = r.err]
                   /\ pc' = [pc EXCEPT ![c] = "done"]
                   /\ UNCHANGED pos
              ELSE /\ pos' = [pos EXCEPT ![c] = pos[c] + 1]
                   /\ UNCHANGED <<pc, outcome>>
    /\ UNCHANGED <<input, expression, tokens, output, operators, first, service, limiter, memo>>

\* the end of _evaluate_postfix
EvalEnd(c) ==
    /\ pc[c] = "evaluate"
    /\ pos[c] > Len(output[Frame(c)])
    /\ outcome' = [outcome EXCEPT ![c] = EvalFinish(stack[Frame(c)])]
    /\ pc' = [pc EXCEPT ![c] = "done"]
    /\ UNCHANGED <<input, pos, locals, first, service, limiter, memo>>

Step(c) ==
    \/ ParseStart(c)
    \/ Validate(c)
    \/ Tokenize(c)
    \/ ConvertStep(c)
    \/ ConvertEnd(c)
    \/ EvalStep(c)
    \/ EvalEnd(c)

\* the call returns or raises; the caller may call again
Return(c) ==
    /\ pc[c] = "done"
    /\ pc' = [pc EXCEPT ![c] = "idle"]
    /\ UNCHANGED <<input, outcome, pos, locals, first, service, limiter, memo>>

\* the same, and the outcome is noted if it is the first for this argument
ReturnNoted(c) ==
    /\ pc[c] = "done"
    /\ pc' = [pc EXCEPT ![c] = "idle"]
    /\ first' = [e \in DOMAIN first \cup {input[c]} |->
                    IF e \in DOMAIN first THEN first[e] ELSE outcome[c]]
    /\ UNCHANGED <<input, outcome, pos, locals, service, limiter, memo>>

\* a request with the 'expression' field request reaches calculate()
Calculate ==
    /\ request # NoRequest
    /\ LET r == calculate(cache, request, now)
       IN  /\ response' = r.response
           /\ cache' = r.cache
    /\ UNCHANGED <<pc, input, outcome, pos, locals, first, request, now, ticks, limiter, memo>>

\* time.time() advances, between the calls
TickSizes == {1, CalcTtl - 1}
Tick ==
    /\ pc[1] = "idle"
    /\ ticks < MaxTime
    /\ \E dt \in TickSizes : now' = now + dt
    /\ ticks' = ticks + 1
    /\ UNCHANGED <<pc, input, outcome, pos, locals, first, request, response, cache,
                 limiter, memo>>

(***************************************************************************)
(* Spec: one call of safe_eval on any input, or the requests of one        *)
(* expression to /calculate.                                               *)
(***************************************************************************)
Init ==
    /\ Fresh
    /\ \/ /\ request = NoRequest
          /\ pc = [c \in Callers |-> IF c = 1 THEN "parse" ELSE "idle"]
          /\ \E e \in Inputs : input = [c \in Callers |-> IF c = 1 THEN e ELSE <<>>]
       \/ /\ request \in Requests
          /\ pc = [c \in Callers |-> "idle"]
          /\ input = [c \in Callers |-> <<>>]

Next == Step(1) \/ Calculate \/ Tick

Spec == Init /\ [][Next]_vars

(***************************************************************************)
(* SpecSeq: one caller calls safe_eval again and again.  SpecConc: the     *)
(* callers call it concurrently, their steps interleaved.                  *)
(***************************************************************************)
InitCalls ==
    /\ Fresh
    /\ request = NoRequest
    /\ pc = [c \in Callers |-> "idle"]
    /\ input = [c \in Callers |-> <<>>]

NextSeq ==
    \/ \E e \in CallInputs : Call(1, e)
    \/ Step(1)
    \/ ReturnNoted(1)

SpecSeq == InitCalls /\ [][NextSeq]_vars

NextConc ==
    \E c \in Callers :
        \/ \E e \in CallInputs : Call(c, e)
        \/ Step(c)
        \/ Return(c)

SpecConc == InitCalls /\ [][NextConc]_vars

(***************************************************************************)
(* SpecCache: cached_calculate is called again and again, on the same and  *)
(* on different expressions, and the clock advances between the calls.     *)
(***************************************************************************)
\* cached_calculate(e) is called and returns or raises
CachedCalculate(e) ==
    /\ pc[1] = "idle"
    /\ LET r == cached_calculate(cache, e, now)
       IN  /\ outcome' = [outcome EXCEPT ![1] = r.outcome]
           /\ cache' = r.cache
    /\ input' = [input EXCEPT ![1] = e]
    /\ UNCHANGED <<pc, pos, locals, first, request, response, now, ticks, limiter, memo>>

NextCache ==
    \/ \E e \in CallInputs : CachedCalculate(e)
    \/ Tick

SpecCache == InitCalls /\ [][NextCache]_vars

(***************************************************************************)
(* SpecLimit: is_allowed is called again and again, one call at a time,    *)
(* for either client, and the clock advances.  SpecLimitConc: the threads  *)
(* call it concurrently for one client; eviction, length check and append  *)
(* are separate steps on the shared deque, and a thread may be overtaken   *)
(* between them.                                                           *)
(***************************************************************************)
\* the count of refused calls after one more
Refused(k) == [refused EXCEPT ![k] = IF @ < MaxRefused THEN @ + 1 ELSE @]

\* is_allowed(k) is called by thread c and returns
IsAllowed(c, k) ==
    /\ lpc[c] = "idle"
    /\ client' = [client EXCEPT ![c] = k]
    /\ stamp' = [stamp EXCEPT ![c] = now]
    /\ requests' = [requests EXCEPT ![k] = is_allowed(requests[k], now).requests]
    /\ IF is_allowed(requests[k], now).allowed
       THEN /\ verdict' = [verdict EXCEPT ![c] = "allowed"]
            /\ granted' = [granted EXCEPT ![k][now] = @ + 1]
            /\ UNCHANGED refused
       ELSE /\ verdict' = [verdict EXCEPT ![c] = "refused"]
            /\ refused' = Refused(k)
            /\ UNCHANGED granted
    /\ UNCHANGED <<pc, input, outcome, pos, locals, first, service, lpc, memo>>

\* now = time.time(); client_requests = self.requests[client_id]
Enter(c, k) ==
    /\ lpc[c] = "idle"
    /\ client' = [client EXCEPT ![c] = k]
    /\ stamp' = [stamp EXCEPT ![c] = now]
    /\ verdict' = [verdict EXCEPT ![c] = "none"]
    /\ lpc' = [lpc EXCEPT ![c] = "evict"]
    /\ UNCHANGED <<pc, input, outcome, pos, locals, first, service,
                   requests, granted, refused, memo>>

\* the while loop
Evict(c) ==
    /\ lpc[c] = "evict"
    /\ requests' = [requests EXCEPT ![client[c]] = Evicted(@, stamp[c])]
    /\ lpc' = [lpc EXCEPT ![c] = "check"]
    /\ UNCHANGED <<pc, input, outcome, pos, locals, first, service,
                   granted, refused, client, stamp, verdict, memo>>

\* if len(client_requests) >= self.max_requests: return False
Check(c) ==
    /\ lpc[c] = "check"
    /\ IF AtLimit(requests[client[c]])
       THEN /\ verdict' = [verdict EXCEPT ![c] = "refused"]
            /\ refused' = Refused(client[c])
            /\ lpc' = [lpc EXCEPT ![c] = "idle"]
       ELSE /\ lpc' = [lpc EXCEPT ![c] = "append"]
            /\ UNCHANGED <<verdict, refused>>
    /\ UNCHANGED <<pc, input, outcome, pos, locals, first, service,
                   requests, granted, client, stamp, memo>>

\* client_requests.append(now); return True
AppendStamp(c) ==
    /\ lpc[c] = "append"
    /\ requests' = [requests EXCEPT ![client[c]] = Append(@, stamp[c])]
    /\ granted' = [granted EXCEPT ![client[c]][stamp[c]] = @ + 1]
    /\ verdict' = [verdict EXCEPT ![c] = "allowed"]
    /\ lpc' = [lpc EXCEPT ![c] = "idle"]
    /\ UNCHANGED <<pc, input, outcome, pos, locals, first, service,
                   refused, client, stamp, memo>>

\* time.time() advances by a second
Advance ==
    /\ now < MaxClock
    /\ now' = now + 1
    /\ UNCHANGED <<pc, input, outcome, pos, locals, first, request, response, cache,
                   ticks, limiter, memo>>

NextLimit ==
    \/ \E k \in Clients : IsAllowed(1, k)
    \/ Advance

SpecLimit == InitCalls /\ [][NextLimit]_vars

NextLimitConc ==
    \/ \E c \in Callers :
        \/ Enter(c, "a")
        \/ Evict(c)
        \/ Check(c)
        \/ AppendStamp(c)
    \/ Advance

SpecLimitConc == InitCalls /\ [][NextLimitConc]_vars

(***************************************************************************)
(* SpecTtl: set and get are called on one MemoryCache, one call at a time, *)
(* and the clock advances by a second or by just less than the default     *)
(* time-to-live.                                                           *)
(***************************************************************************)
CacheKeys == {"k", "j"}
CacheValues == {1, 2}
TtlArgs == {NoTtl, <<0>>, <<1>>, <<2>>}

\* cache.set(key, value, ttl), or cache.set(key, value) when ttl is NoTtl
CacheSet(key, value, ttl) ==
    /\ cache' = MemoryCache_set(cache, key, value, ttl, now)
    /\ stored' = [k \in DOMAIN stored \cup {key} |->
                    IF k = key THEN [value |-> value, ttl |-> ttl, at |-> now]
                    ELSE stored[k]]
    /\ got' = NoGet
    /\ UNCHANGED <<pc, input, outcome, pos, locals, first, request, response, now,
                   ticks, limiter>>

\* cache.get(key)
CacheGet(key) ==
    /\ LET r == MemoryCache_get(cache, key, now)
       IN  /\ cache' = r.cache
           /\ got' = [key |-> key, value |-> r.value, at |-> now]
    /\ UNCHANGED <<pc, input, outcome, pos, locals, first, request, response, now,
                   ticks, limiter, stored>>

ElapseSizes == {1, DefaultTtl - 1}
Elapse ==
    /\ ticks < MaxTime
    /\ \E dt \in ElapseSizes : now' = now + dt
    /\ ticks' = ticks + 1
    /\ UNCHANGED <<pc, input, outcome, pos, locals, first, request, response, cache,
                   limiter, memo>>

NextTtl ==
    \/ \E key \in CacheKeys, value \in CacheValues, ttl \in TtlArgs :
            CacheSet(key, value, ttl)
    \/ \E key \in CacheKeys : CacheGet(key)
    \/ Elapse

SpecTtl == InitCalls /\ [][NextTtl]_vars

(***************************************************************************)
(* The reference evaluator: the value of a well-formed expression by its   *)
(* structure.  The expression splits at its last + or - outside            *)
(* parentheses, else at its last * or / outside parentheses (so that equal *)
(* precedence groups left to right); else it is a parenthesised expression *)
(* or a number.  A division whose divisor is zero gives DivisionByZero.    *)
(***************************************************************************)
Count(s, ch, k) == Cardinality({j \in 1..k : s[j] = ch})
Depth(s, i) == Count(s, "(", i - 1) - Count(s, ")", i - 1)
TopLevel(s, ops) == {i \in 2..(Len(s) - 1) : s[i] \in ops /\ Depth(s, i) = 0}
Last(S) == CHOOSE i \in S : \A j \in S : j <= i

RefApply(op, l, r) ==
    IF l.val = <<>> THEN l
    ELSE IF r.val = <<>> THEN r
    ELSE IF op = "+" THEN Value(FloatAdd(l.val[1], r.val[1]))
    ELSE IF op = "-" THEN Value(FloatAdd(l.val[1], Neg(r.val[1])))
    ELSE IF op = "*" THEN Value(FloatMul(l.val[1], r.val[1]))
    ELSE IF IsZero(r.val[1]) THEN DivisionByZero
    ELSE Value(FloatDiv(l.val[1], r.val[1]))

RECURSIVE RefEval(_)
RefSplit(s, i) ==
    RefApply(s[i], RefEval(SubSeq(s, 1, i - 1)), RefEval(SubSeq(s, i + 1, Len(s))))
RefEval(s) ==
    IF TopLevel(s, {"+", "-"}) # {} THEN RefSplit(s, Last(TopLevel(s, {"+", "-"})))
    ELSE IF TopLevel(s, {"*", "/"}) # {} THEN RefSplit(s, Last(TopLevel(s, {"*", "/"})))
    ELSE IF s[1] = "(" THEN RefEval(SubSeq(s, 2, Len(s) - 1))
    ELSE Value(ToFloat(s))

\* a value that is neither an infinity nor NaN
IsFiniteValue(o) == o.val # <<>> /\ IsFinite(o.val[1])

\* the call of caller 1 has returned or raised
Done == request = NoRequest /\ pc[1] = "done"

(***************************************************************************)
(* C1.  For every well-formed infix expression without a leading minus     *)
(* whose reference value is finite (no division by zero, no overflow to an *)
(* infinity, no NaN), safe_eval returns the reference value: * and / bind  *)
(* tighter than + and -, equal precedence groups left to right, each       *)
(* operator is applied as left OP right, parentheses override precedence.  *)
(***************************************************************************)
C1_ReferenceValue ==
    (Done /\ input[1] \in WellFormedExpressions /\ IsFiniteValue(RefEval(input[1])))
        => outcome[1] = RefEval(input[1])

\* 2-3*2-3 has returned -7: the product first, then the differences from the left
C1_Witness ==
    /\ Done
    /\ input[1] = <<"2", "-", "3", "*", "2", "-", "3">>
    /\ outcome[1] = Value([n |-> -7, d |-> 1])

\* C1 as stated: the same for every well-formed expression in which no
\* divisor is zero, those whose value overflows included
C1_AsStated ==
    (Done /\ input[1] \in WellFormedExpressions /\ RefEval(input[1]) # DivisionByZero)
        => outcome[1] = RefEval(input[1])

(***************************************************************************)
(* C2.  An expression that starts with '-' followed by a number is         *)
(* accepted and its first operand is negative: safe_eval("-" + n + rest)   *)
(* is the value of (0-n) followed by rest, as safe_eval("-5+3") = -2.      *)
(***************************************************************************)
C2_Inputs ==
    {e \in LeadingMinusExpressions \cup Examples :
        Len(e) >= 2 /\ e[1] = "-" /\ e[2] \in DigitChars}

\* "-" n rest rewritten to "(0-" n ")" rest
Negated(e) ==
    <<"(", "0", "-">> \o Slice(e, 2, NumberMatchEnd(e, 2) - 1) \o <<")">>
    \o Slice(e, NumberMatchEnd(e, 2), Len(e))

\* C2: a call with "-" n rest ends with the value of "(0-" n ")" rest
C2_LeadingMinus ==
    (Done /\ input[1] \in C2_Inputs /\ IsFiniteValue(RefEval(Negated(input[1]))))
        => outcome[1] = RefEval(Negated(input[1]))

(***************************************************************************)
(* C3.  For every input whose whitespace-trimmed form is not empty, has at *)
(* most 1000 characters and contains a character outside the allowed set   *)
(* (digits . e E + - * / ( ) space), wherever that character is, safe_eval *)
(* fails with InvalidCharacter and returns no number.                      *)
(***************************************************************************)
C3_Allowed ==
    {"0", "1", "2", "3", "4", "5", "6", "7", "8", "9", ".", "e", "E",
     "+", "-", "*", "/", "(", ")", " "}
HasDisallowed(s) == \E i \in 1..Len(s) : s[i] \notin C3_Allowed

\* C3: a trimmed input of at most 1000 characters with a character outside
\* the allowed set fails with InvalidCharacter
C3_InvalidCharacter ==
    (/\ Done
     /\ strip(input[1]) # <<>>
     /\ Len(strip(input[1])) <= MaxExpressionLength
     /\ HasDisallowed(strip(input[1])))
        => outcome[1] = InvalidCharacter

\* 2+a has been rejected for its last character
C3_Witness ==
    /\ Done
    /\ input[1] = <<"2", "+", "a">>
    /\ outcome[1] = InvalidCharacter

\* C3 as stated: the same for every input that contains such a character,
\* leading and trailing whitespace and inputs of any length included
C3_AsStated ==
    (Done /\ HasDisallowed(input[1])) => outcome[1] = InvalidCharacter

(***************************************************************************)
(* C4.  Whenever the evaluation applies '/' to a right operand equal to    *)
(* zero, the call fails with DivisionByZero at that step, both operands    *)
(* popped and no quotient pushed; and a request that reaches calculate()   *)
(* with an expression of at most 1000 characters whose evaluation divides  *)
(* by zero is answered 400 with the error 'Division by zero'.              *)
(***************************************************************************)
DividesByZero ==
    /\ request = NoRequest
    /\ pc[1] = "evaluate"
    /\ pos[1] <= Len(output[1])
    /\ output[1][pos[1]] = <<"/">>
    /\ Len(stack[1]) >= 2
    /\ IsZero(stack[1][Len(stack[1])])

C4_FailsAtStep ==
    DividesByZero =>
        /\ pc'[1] = "done"
        /\ outcome'[1] = DivisionByZero
        /\ stack'[1] = SubSeq(stack[1], 1, Len(stack[1]) - 2)

Answered == request # NoRequest /\ response # NoResponse

C4_Answer ==
    (/\ Answered
     /\ Len(request) <= MaxInputLength
     /\ safe_eval(ReplaceSymbols(request)) = DivisionByZero)
        => response = ErrorResponse(400, "Division by zero")

\* C4: a division by zero fails at its step, and is answered 400 with
\* 'Division by zero'
C4_DivisionByZero == [][C4_FailsAtStep]_vars /\ []C4_Answer

\* 2/(2-2) has failed at its division, by a divisor that is no literal zero
C4_Witness ==
    /\ Done
    /\ input[1] = <<"2", "/", "(", "2", "-", "2", ")">>
    /\ outcome[1] = DivisionByZero
    /\ stack[1] = <<>>

\* C4 as stated, its endpoint part: the same answer whatever the length of
\* the expression
C4_AsStated ==
    (Answered /\ safe_eval(ReplaceSymbols(request)) = DivisionByZero)
        => response = ErrorResponse(400, "Division by zero")

(***************************************************************************)
(* C5.  safe_eval is deterministic and history-independent: whatever calls *)
(* were made before, a call safe_eval(e) ends with the outcome that the    *)
(* first call safe_eval(e) ended with.                                     *)
(***************************************************************************)
C5_SameOutcome ==
    (Done /\ input[1] \in DOMAIN first) => outcome[1] = first[input[1]]

\* 2-3 has been evaluated again after calls with 3/0 and with (2
C5_Witness ==
    /\ Done
    /\ input[1] = <<"2", "-", "3">>
    /\ {<<"2", "-", "3">>, <<"3", "/", "0">>, <<"(", "2">>} \subseteq DOMAIN first
    /\ outcome[1] = Value([n |-> -1, d |-> 1])

(***************************************************************************)
(* C6.  When calls of safe_eval run concurrently with their steps          *)
(* interleaved, each call ends with the outcome it has when run alone, and *)
(* no step of one call changes the expression, the tokens, the output, the *)
(* operator stack or the evaluation stack of another.                      *)
(***************************************************************************)
C6_AsAlone ==
    \A c \in Callers : pc[c] = "done" => outcome[c] = safe_eval(input[c])

C6_OwnLocals ==
    \A c \in Callers :
        (pc'[c] = pc[c] /\ pos'[c] = pos[c]) =>
            /\ expression'[c] = expression[c]
            /\ tokens'[c] = tokens[c]
            /\ output'[c] = output[c]
            /\ operators'[c] = operators[c]
            /\ stack'[c] = stack[c]

\* C6: each concurrent call ends as when run alone, and no step changes the
\* locals of another call
C6_Isolation == []C6_AsAlone /\ [][C6_OwnLocals]_vars

\* 2-3 has ended with -1 while the evaluation of 3/0 is under way
C6_Witness ==
    /\ pc[1] = "done"
    /\ input[1] = <<"2", "-", "3">>
    /\ outcome[1] = Value([n |-> -1, d |-> 1])
    /\ pc[2] = "evaluate"
    /\ input[2] = <<"3", "/", "0">>
    /\ Len(stack[2]) = 2

(***************************************************************************)
(* The validation rules, each stated on the whitespace-trimmed input e,    *)
(* which is the string parse passes to _validate_expression.               *)
(***************************************************************************)
Unbalanced(e) ==
    \/ \E k \in 1..Len(e) : Count(e, ")", k) > Count(e, "(", k)
    \/ Count(e, "(", Len(e)) # Count(e, ")", Len(e))
Adjacent(e) ==
    \E i \in 1..(Len(e) - 1) :
        e[i] \in {"+", "-", "*", "/"} /\ e[i + 1] \in {"+", "-", "*", "/"}
Misplaced(e) ==
    e # <<>> /\ (e[1] \in {"*", "/", "+"} \/ e[Len(e)] \in {"+", "-", "*", "/"})

\* whether e violates the rules, in the order of the checks, and the errors
\* of the rules
Violations(e) ==
    <<e = <<>>, Len(e) > 1000, HasDisallowed(e), Unbalanced(e), Adjacent(e), Misplaced(e)>>
RuleErrors ==
    <<EmptyExpression, TooLong, InvalidCharacter, UnbalancedParentheses,
      ConsecutiveOperators, InvalidOperatorPlacement>>
Earliest(v, k) == v[k] /\ \A j \in 1..(k - 1) : ~v[j]

\* the call of caller 1 is past the validation
PastValidation == request = NoRequest /\ pc[1] \in {"tokenize", "convert", "evaluate"}

(***************************************************************************)
(* C7.  The validation checks run in the order empty, too long, invalid    *)
(* character, unbalanced parentheses, consecutive operators, operator      *)
(* placement: the error of a call is that of the earliest rule its trimmed *)
(* input violates, and an input that violates a rule is never tokenized,   *)
(* converted or evaluated.                                                 *)
(***************************************************************************)
C7_EarliestRule ==
    /\ Done =>
          \A k \in 1..6 :
              Earliest(Violations(strip(input[1])), k) => outcome[1] = RuleErrors[k]
    /\ PastValidation =>
          \A k \in 1..6 : ~Violations(strip(input[1]))[k]

\* (++ breaks the parenthesis, the consecutive-operator and the placement
\* rule, and the call has failed with the first of the three
C7_Witness ==
    /\ Done
    /\ input[1] = <<"(", "+", "+">>
    /\ outcome[1] = UnbalancedParentheses

(***************************************************************************)
(* C8.  Every input whose whitespace-trimmed form is longer than 1000      *)
(* characters is rejected with TooLong, and the string that is tokenized   *)
(* and evaluated never has more than 1000 characters.                      *)
(***************************************************************************)
C8_TooLong ==
    /\ (Done /\ Len(strip(input[1])) > 1000) => outcome[1] = TooLong
    /\ PastValidation => Len(expression[1]) <= 1000

\* an input of 1001 characters without whitespace at its ends has been rejected
C8_Witness ==
    /\ Done
    /\ Len(input[1]) = 1001
    /\ strip(input[1]) = input[1]
    /\ outcome[1] = TooLong

\* C8 as stated: the same for every input longer than 1000 characters that
\* is not empty after trimming
C8_AsStated ==
    (Done /\ Len(input[1]) > 1000 /\ strip(input[1]) # <<>>) => outcome[1] = TooLong

(***************************************************************************)
(* C9.  Among the inputs whose trimmed form passes the empty, length and   *)
(* character checks, safe_eval fails with UnbalancedParentheses exactly    *)
(* for those in which the count of '(' minus ')' is negative after some    *)
(* position or is not zero at the end; none of them reaches the tokenizer. *)
(***************************************************************************)
C9_Unbalanced ==
    /\ (/\ Done
        /\ ~Violations(strip(input[1]))[1]
        /\ ~Violations(strip(input[1]))[2]
        /\ ~Violations(strip(input[1]))[3])
           => (outcome[1] = UnbalancedParentheses <=> Unbalanced(strip(input[1])))
    /\ PastValidation => ~Unbalanced(expression[1])

\* )2( has been rejected: its count ends at zero but is negative on the way
C9_Witness ==
    /\ Done
    /\ input[1] = <<")", "2", "(">>
    /\ outcome[1] = UnbalancedParentheses

(***************************************************************************)
(* C10.  Every input whose trimmed form passes the earlier checks and has  *)
(* two operator characters next to each other is rejected with             *)
(* ConsecutiveOperators and never tokenized or evaluated; a request that   *)
(* reaches calculate() with such an expression of at most 1000 characters  *)
(* is answered 400 with the error 'Invalid expression'.                    *)
(***************************************************************************)
PassesEarlier(e) == \A k \in 1..4 : ~Violations(e)[k]

\* C10: adjacent operator characters are rejected with ConsecutiveOperators,
\* and answered 400 with 'Invalid expression'
C10_Consecutive ==
    /\ (Done /\ PassesEarlier(strip(input[1])) /\ Adjacent(strip(input[1])))
           => outcome[1] = ConsecutiveOperators
    /\ PastValidation => ~Adjacent(expression[1])
    /\ (/\ Answered
        /\ Len(request) <= 1000
        /\ PassesEarlier(strip(ReplaceSymbols(request)))
        /\ Adjacent(strip(ReplaceSymbols(request))))
           => response = ErrorResponse(400, "Invalid expression")

\* 2*-3 has been rejected
C10_Witness ==
    /\ Done
    /\ input[1] = <<"2", "*", "-", "3">>
    /\ outcome[1] = ConsecutiveOperators

\* C10 as stated, its endpoint part: the same answer whatever the length of
\* the expression
C10_AsStated ==
    (/\ Answered
     /\ PassesEarlier(strip(ReplaceSymbols(request)))
     /\ Adjacent(strip(ReplaceSymbols(request))))
        => response = ErrorResponse(400, "Invalid expression")

(***************************************************************************)
(* Well-formed token sequences.  An operand starts with a number or '('    *)
(* and ends with a number or ')'.  A sequence with balanced parentheses is *)
(* a well-formed infix expression when it starts where an operand starts,  *)
(* ends where an operand ends, an operator or ')' follows every operand    *)
(* end, and an operand start follows every operator and every '('.         *)
(***************************************************************************)
StartsOperand(token) == token = <<"(">> \/ ~(IsOperatorToken(token) \/ IsParenToken(token))
EndsOperand(token) == token = <<")">> \/ ~(IsOperatorToken(token) \/ IsParenToken(token))

RECURSIVE TokenDepth(_, _)
TokenDepth(ts, i) ==
    IF i = 0 THEN 0
    ELSE TokenDepth(ts, i - 1)
         + (IF ts[i] = <<"(">> THEN 1 ELSE IF ts[i] = <<")">> THEN -1 ELSE 0)

WellFormedTokens(ts) ==
    /\ ts # <<>>
    /\ StartsOperand(ts[1])
    /\ EndsOperand(ts[Len(ts)])
    /\ \A i \in 1..Len(ts) : TokenDepth(ts, i) >= 0
    /\ TokenDepth(ts, Len(ts)) = 0
    /\ \A i \in 1..(Len(ts) - 1) :
        IF EndsOperand(ts[i])
        THEN IsOperatorToken(ts[i + 1]) \/ ts[i + 1] = <<")">>
        ELSE StartsOperand(ts[i + 1])

\* the call of caller 1 has returned a number
Returned == Done /\ outcome[1].val # <<>>

(***************************************************************************)
(* C11.  Whenever safe_eval returns a number, the tokens of its argument   *)
(* are a well-formed infix expression: inside every parenthesis group      *)
(* operands and binary operators alternate, starting and ending with an    *)
(* operand, no two operands are adjacent and no parenthesis pair is empty. *)
(***************************************************************************)
C11_WellFormed == Returned => WellFormedTokens(tokens[1])

(***************************************************************************)
(* C12.  Every call of safe_eval ends in exactly one of two ways: it       *)
(* returns a finite float, or it raises one of the twelve listed           *)
(* classifications or one of the two that _validate_token_sequence adds to *)
(* them, "Invalid operator at start" and "Operator at end of expression";  *)
(* nothing else is raised, and a call that raises returns no value.        *)
(***************************************************************************)
ListedErrors ==
    {EmptyExpression, TooLong, InvalidCharacter, UnbalancedParentheses,
     ConsecutiveOperators, InvalidOperatorPlacement, NoValidTokens, InvalidToken,
     MalformedExpression, DivisionByZero, ResultIsInfinity, ResultIsNotANumber}

ReturnsFloat(o) == o.exc = "" /\ Len(o.val) = 1 /\ IsFinite(o.val[1])

AnswersFailure(r, resp) ==
    /\ r = DivisionByZero => resp = [status |-> 400, error |-> "Division by zero", result |-> <<>>]
    /\ (r.val = <<>> /\ r # DivisionByZero)
        => resp = [status |-> 400, error |-> "Invalid expression", result |-> <<>>]
    /\ r.val # <<>> => (resp.status = 200 /\ resp.error = "" /\ resp.result = r.val)

EvaluatorCalled == Answered /\ InputValidator_validate_expression(request) = ""

C13_Answers ==
    /\ EvaluatorCalled => AnswersFailure(safe_eval(ReplaceSymbols(request)), response)
    /\ (Answered /\ response.status = 200) => EvaluatorCalled
    /\ response.status \in {0, 200, 400}

\* "1.2.3", which the evaluator refuses with MalformedExpression, has been
\* answered 400 'Invalid expression'
C13_Witness ==
    /\ request = <<"1", ".", "2", ".", "3">>
    /\ safe_eval(request) = MalformedExpression
    /\ response = ErrorResponse(400, "Invalid expression")

(***************************************************************************)
(* C14.  Whatever calls of cached_calculate and advances of the clock came *)
(* before, cached_calculate(e) returns the value, or raises the error, of  *)
(* safe_eval(e); every entry of the cache holds the value of the           *)
(* expression of its key, so that a failed evaluation is never stored and  *)
(* an entry is never returned for another expression; and a call that      *)
(* raises adds no entry.                                                   *)
(***************************************************************************)
C14_SameOutcome == outcome[1] # NoOutcome => outcome[1] = safe_eval(input[1])

C14_Entries ==
    \A k \in DOMAIN cache :
        /\ Len(k) = 2
        /\ k[1] = "cached_calculate"
        /\ safe_eval(k[2]).val = <<cache[k].value>>

C14_FailureStoresNothing ==
    (outcome' # outcome /\ outcome'[1].val = <<>>) => DOMAIN cache' \subseteq DOMAIN cache

C14_CacheTransparent ==
    /\ [](C14_SameOutcome /\ C14_Entries)
    /\ [][C14_FailureStoresNothing]_vars

\* cached_calculate has returned 10 for 2*(3+2); the clock has advanced since
\* its entry was stored, and the entry of 2-3 is in the cache too, and fresh
C14_Witness ==
    /\ input[1] = <<"2", "*", "(", "3", "+", "2", ")">>
    /\ outcome[1] = Value([n |-> 10, d |-> 1])
    /\ <<"cached_calculate", input[1]>> \in DOMAIN cache
    /\ cache[<<"cached_calculate", input[1]>>].expiry < now + CalcTtl
    /\ <<"cached_calculate", <<"2", "-", "3">>>> \in DOMAIN cache
    /\ now < cache[<<"cached_calculate", <<"2", "-", "3">>>>].expiry

(***************************************************************************)
(* C15.  Tokenization is lossless: when _tokenize returns, its tokens,     *)
(* concatenated in order, are the expression with its spaces removed; a    *)
(* character that no token pattern matches is never dropped.               *)
(***************************************************************************)
RECURSIVE Concat(_)
Concat(ts) == IF ts = <<>> THEN <<>> ELSE ts[1] \o Concat(Tail(ts))

\* _tokenize has returned to the call of caller 1
Tokenized == request = NoRequest /\ pc[1] \in {"convert", "evaluate"}

C15_Lossless == Tokenized => Concat(tokens[1]) = RemoveSpaces(expression[1])

(***************************************************************************)
(* C16.  For every expression that passes validation and tokenization and  *)
(* whose tokens are a well-formed infix expression, postfix evaluation     *)
(* never meets an operator while fewer than two values are on the          *)
(* evaluation stack, it ends with exactly one value on the stack, and      *)
(* MalformedExpression is not raised.                                      *)
(***************************************************************************)
Evaluating == request = NoRequest /\ pc[1] = "evaluate"

\* the token that the next pass of the loop of _evaluate_postfix reads is an
\* operator
AtOperator == pos[1] <= Len(output[1]) /\ IsOperatorToken(output[1][pos[1]])

Converting == request = NoRequest /\ pc[1] = "convert"

Holds(seq, token) == \E i \in 1..Len(seq) : seq[i] = token

C17_Parentheses ==
    /\ (Converting /\ pos[1] <= Len(tokens[1]) /\ tokens[1][pos[1]] = <<")">>)
        => Holds(operators[1], <<"(">>)
    /\ (Converting /\ pos[1] > Len(tokens[1])) => ~Holds(operators[1], <<"(">>)
    /\ (Converting \/ Evaluating)
        => ~(Holds(output[1], <<"(">>) \/ Holds(output[1], <<")">>))

\* the conversion of (2+3)*4 is at its ')': the stack holds '(' and '+'
C17_Witness ==
    /\ Converting
    /\ tokens[1] = <<<<"(">>, <<"2">>, <<"+">>, <<"3">>, <<")">>, <<"*">>, <<"4">>>>
    /\ pos[1] = 5
    /\ operators[1] = <<<<"(">>, <<"+">>>>
    /\ output[1] = <<<<"2">>, <<"3">>>>

(***************************************************************************)
(* C18.  _infix_to_postfix only reorders: for the tokens of a validated    *)
(* expression its output holds every number and operator token as often as *)
(* the input does and no parenthesis, the number tokens are in the output  *)
(* in the order they have in the input, and the conversion leaves the      *)
(* input token list unchanged.                                             *)
(***************************************************************************)
Occurrences(seq, token) == Count(seq, token, Len(seq))

TokensOf(seq) == {seq[i] : i \in 1..Len(seq)}

C18_Permutation ==
    Evaluating =>
        /\ \A t \in TokensOf(tokens[1]) \cup TokensOf(output[1]) :
            Occurrences(output[1], t)
                = (IF t \in {<<"(">>, <<")">>} THEN 0 ELSE Occurrences(tokens[1], t))
        /\ SelectSeq(output[1], is_number) = SelectSeq(tokens[1], is_number)

C18_TokensKept == pc[1] = "convert" => tokens' = tokens

C18_OnlyReorders == []C18_Permutation /\ [][C18_TokensKept]_vars

\* (2+3)*4 has been converted to 2 3 + 4 *
C18_Witness ==
    /\ Evaluating
    /\ tokens[1] = <<<<"(">>, <<"2">>, <<"+">>, <<"3">>, <<")">>, <<"*">>, <<"4">>>>
    /\ output[1] = <<<<"2">>, <<"3">>, <<"+">>, <<"4">>, <<"*">>>>

(***************************************************************************)
(* C19.  Every number token that tokenization accepts denotes a finite     *)
(* value: a literal whose value is beyond the float range is not among the *)
(* tokens that _tokenize returns.  (The range of the floats is scaled      *)
(* down here: 2e3 is beyond FloatMax as 1e999 is beyond the doubles.)      *)
(***************************************************************************)
C19_FiniteTokens ==
    Tokenized =>
        \A i \in 1..Len(tokens[1]) :
            is_number(tokens[1][i]) => IsFinite(ToFloat(tokens[1][i]))

(***************************************************************************)
(* C20.  At every step of _infix_to_postfix the operators that lie on the  *)
(* operator stack above the nearest '(' (above the bottom when there is    *)
(* none) are in strictly increasing precedence from bottom to top, and so  *)
(* they are at most two.                                                   *)
(***************************************************************************)
\* the index of the topmost '(' of the stack, 0 when it holds none
NearestParen(ops) ==
    IF Holds(ops, <<"(">>)
    THEN CHOOSE i \in 1..Len(ops) :
            ops[i] = <<"(">> /\ \A j \in (i + 1)..Len(ops) : ops[j] # <<"(">>
    ELSE 0

StrictlyIncreasing(ops, from) ==
    \A i \in (from + 1)..(Len(ops) - 1) :
        (IF ops[i][1] \in {"*", "/"} THEN 2 ELSE 1)
            < (IF ops[i + 1][1] \in {"*", "/"} THEN 2 ELSE 1)

C20_Increasing ==
    Converting =>
        /\ StrictlyIncreasing(operators[1], NearestParen(operators[1]))
        /\ Len(operators[1]) - NearestParen(operators[1]) <= 2

\* the conversion of (2-3*2) has read the '*': above the '(' the stack holds
\* '-' and '*'
C20_Witness ==
    /\ Converting
    /\ operators[1] = <<<<"(">>, <<"-">>, <<"*">>>>
    /\ NearestParen(operators[1]) = 1

(***************************************************************************)
(* C21.  With the calls of is_allowed made one at a time: for every client *)
(* and every time t, at most max_requests of the client's calls with a     *)
(* timestamp in (t - window_seconds, t] were allowed; and a call changes   *)
(* the recorded timestamps of no client but its own.                       *)
(***************************************************************************)
RECURSIVE GrantedIn(_, _, _)
\* the number of allowed calls of client k with a timestamp in lo..hi
GrantedIn(k, lo, hi) ==
    IF lo > hi THEN 0
    ELSE (IF lo \in 0..MaxClock THEN granted[k][lo] ELSE 0) + GrantedIn(k, lo + 1, hi)

\* the same for the interval (t - window_seconds, t]
GrantedInWindow(k, t) == GrantedIn(k, t - window_seconds + 1, t)

C21_InEveryWindow ==
    \A k \in Clients : \A t \in 0..(MaxClock + window_seconds) :
        GrantedInWindow(k, t) <= max_requests

C21_OwnTimestamps ==
    \A k \in Clients : requests'[k] # requests[k] => k = client'[1]

C21_SlidingWindow == []C21_InEveryWindow /\ [][C21_OwnTimestamps]_vars

\* client a is at its limit with both timestamps in the window that ends now,
\* a call of it has been refused, and client b has a timestamp recorded
C21_Witness ==
    /\ GrantedInWindow("a", now) = max_requests
    /\ requests["a"] = <<1, 2>>
    /\ refused["a"] > 0
    /\ requests["b"] # <<>>

(***************************************************************************)
(* C22.  When the calls of is_allowed of one client run concurrently,      *)
(* their steps interleaved, still at most max_requests of the client's     *)
(* calls with a timestamp in one window are allowed.                       *)
(***************************************************************************)
C22_ConcurrentLimit ==
    \A t \in 0..(MaxClock + window_seconds) : GrantedInWindow("a", t) <= max_requests

(***************************************************************************)
(* C23.  With the calls made one at a time: a call that is refused records *)
(* no timestamp; and a call made when window_seconds have elapsed since    *)
(* the oldest recorded timestamp of its client is allowed, however many    *)
(* calls of the client were refused before.                                *)
(***************************************************************************)
\* this step is a call of is_allowed for client k by thread 1
CallFor(k) ==
    /\ now' = now
    /\ client'[1] = k
    /\ <<requests, granted, refused, verdict, stamp, client>>'
        # <<requests, granted, refused, verdict, stamp, client>>

\* later is what is left of earlier after entries were removed from its left
LeftRemoved(earlier, later) ==
    \E n \in 0..Len(earlier) : later = SubSeq(earlier, n + 1, Len(earlier))

C23_RefusedNotRecorded ==
    \A k \in Clients :
        (CallFor(k) /\ verdict'[1] = "refused")
            => (granted' = granted /\ LeftRemoved(requests[k], requests'[k]))

C23_AllowedOnceElapsed ==
    \A k \in Clients :
        (CallFor(k) /\ requests[k] # <<>> /\ now >= requests[k][1] + window_seconds)
            => verdict'[1] = "allowed"

C23_RefusalsDoNotProlong ==
    [][C23_RefusedNotRecorded /\ C23_AllowedOnceElapsed]_vars

\* client a was allowed twice at time 0 and refused MaxRefused times before
\* time 2, and its call at time 2 has been allowed
C23_Witness ==
    /\ client[1] = "a"
    /\ stamp[1] = window_seconds
    /\ now = window_seconds
    /\ verdict[1] = "allowed"
    /\ granted["a"][0] = max_requests
    /\ granted["a"][1] = 0
    /\ granted["a"][window_seconds] = 1
    /\ refused["a"] = MaxRefused
    /\ requests["a"] = <<window_seconds>>

(***************************************************************************)
(* C24: MemoryCache honours the time-to-live.  A value stored by           *)
(* set(key, value, ttl) at time s, for every explicitly given ttl >= 0     *)
(* (default_ttl when ttl is omitted), is returned by get(key) only at      *)
(* times strictly less than s + ttl; a get at or after s + ttl returns     *)
(* None and removes the entry; and a later set on the same key replaces    *)
(* both value and expiry, so that a get answers for the latest set alone.  *)
(***************************************************************************)
\* the time-to-live of a set as stated: the ttl given, default_ttl if omitted
TtlAsStated(ttl) == IF ttl = NoTtl THEN DefaultTtl ELSE ttl[1]

\* a get of a key that has been set is the last call made
GetOfStored == got.key \in DOMAIN stored

\* when the entry of the latest set of the key expires, as stated
StatedExpiry(key) == stored[key].at + TtlAsStated(stored[key].ttl)

C24_ReturnedOnlyBefore ==
    GetOfStored /\ got.value # <<>> =>
        /\ got.at < StatedExpiry(got.key)
        /\ got.value = <<stored[got.key].value>>

C24_ExpiredIsRemoved ==
    GetOfStored /\ got.at >= StatedExpiry(got.key) =>
        /\ got.value = <<>>
        /\ got.key \notin DOMAIN cache

C24_HonoursTtl == C24_ReturnedOnlyBefore /\ C24_ExpiredIsRemoved

====
